---- MODULE Spec2Model ----
(***************************************************************************)
(* Marker state and synchronization engine of the map annotation tool:     *)
(* the useUndoRedo history hook, the useMarkers repository hook with its   *)
(* refresh protocol, and fetchMapData.                                     *)
(*                                                                         *)
(* React is modelled by its observable scheduling: an event handler runs   *)
(* against the values captured by the render it was created in, state      *)
(* updaters (prev => ...) run against the latest state, and after every    *)
(* commit the effects whose dependencies changed run before the next       *)
(* event is handled.  The only suspension point is `await fetchMapData()`. *)
(***************************************************************************)
EXTENDS Integers, Sequences, FiniteSets, TLC

VARIABLES
    history,        \* useUndoRedo: useState<T[]>([initialState])
    currentIndex,   \* useUndoRedo: useState(0)
    savedMarkers,   \* useLocalStorage(STORAGE_KEY): marker slot and its state
    savedConfig,    \* useLocalStorage(CONFIG_STORAGE_KEY)
    mapConfig,      \* useState<MapConfig>(savedConfig)
    isLoading,      \* useState(false)
    lastFetch,      \* localStorage[LAST_FETCH_KEY], <<>> when there is no item
    storageFull,    \* localStorage.setItem throws (quota exceeded, storage disabled)
    now,            \* Date.now()
    ops,            \* number of events (user operations, clock advances) so far
    inflight,       \* refreshFromSource calls suspended at `await fetchMapData()`
    refreshDep,     \* currentIndex of the render whose refreshFromSource the mount effect last ran
    filters,        \* useMarkers: useState<MarkerFilters>({search, types})
    debouncedSearch,\* useDebounce(filters.search, 150)
    currentZoom,    \* App: useState(initialZoom), in hundredths of a zoom level
    location,       \* window.location.search: the query parameters present, each a string
    clipboard,      \* the query of the link handleShare last copied
    shared,         \* App: what parseShareUrl() returned when the page was opened
    point,          \* a position in image pixels {x, y}, in hundredths of a pixel
    latlng,         \* the same position as Leaflet sees it <<lat, lng>>, in hundredths
    last            \* the operation that produced this state, and what it returned

\* the presentation state, which the repository never writes
viewVars == <<filters, debouncedSearch, currentZoom, location, clipboard, shared, point, latlng>>

vars == <<history, currentIndex, savedMarkers, savedConfig, mapConfig, isLoading,
          lastFetch, storageFull, now, ops, inflight, refreshDep, viewVars, last>>

(***************************************************************************)
(* Bounds of the model.                                                    *)
(***************************************************************************)
\* useUndoRedo's maxHistory parameter (default 50), instantiated small so
\* that the overflow branch of setState is reached, and above 3 so that an
\* index past the last entry is not brought back in range by the clamp of setState.
maxHistory == 4
MaxMarkers == 2     \* longest marker list an add may produce
MaxOps == 3         \* events: user operations and clock advances
MaxInflight == 2    \* refreshes suspended at the same time

Min(a, b) == IF a < b THEN a ELSE b

(***************************************************************************)
(* JavaScript values.                                                      *)
(***************************************************************************)
Undefined == [t |-> "undefined"]
Null == [t |-> "null"]
Arr(s) == [t |-> "array", items |-> s]
Obj(f) == [t |-> "object", fields |-> f]
IsArray(v) == v.t = "array"
\* a ?? b
Coalesce(a, b) == IF a.t \in {"undefined", "null"} THEN b ELSE a
\* arr[i] of a JavaScript array, 0-based: undefined outside the array
At(s, i) == IF i >= 0 /\ i < Len(s) THEN s[i + 1] ELSE Undefined
\* obj.field of a parsed JSON value: undefined unless obj is an object having it
Field(v, f) == IF v.t = "object" /\ f \in DOMAIN v.fields THEN v.fields[f] ELSE Undefined
Truthy(v) == v.t \notin {"undefined", "null"}
\* arr.slice(0, n)
Slice0(s, n) == SubSeq(s, 1, Min(n, Len(s)))

\* Number.prototype.toString() of a non-negative integer, as its decimal digits
RECURSIVE NumToStr(_)
NumToStr(n) == IF n < 10 THEN <<n>> ELSE Append(NumToStr(n \div 10), n % 10)
\* parseInt of a string of decimal digits
RECURSIVE ParseInt(_)
ParseInt(s) ==
    IF Len(s) = 1 THEN s[1]
    ELSE 10 * ParseInt(SubSeq(s, 1, Len(s) - 1)) + s[Len(s)]

Mk(id, name, type, x, y) == [id |-> id, name |-> name, type |-> type, x |-> x, y |-> y]
\* { ...a, ...b }
Spread(a, b) == [k \in DOMAIN a \cup DOMAIN b |-> IF k \in DOMAIN b THEN b[k] ELSE a[k]]

(***************************************************************************)
(* Program constants.                                                      *)
(***************************************************************************)
CACHE_DURATION == 5 * 60 * 1000

\* data/markers: the static fallback set
DEFAULT_MARKERS == Arr(<<Mk(<<7>>, "Elvensong", "continent", 50, 60)>>)
MAP_CONFIG ==
    [imageWidth |-> 400, imageHeight |-> 300, publishBaseUrl |-> "publish",
     currentLocation |-> [name |-> "Treston", x |-> 100, y |-> 200, zoom |-> 0]]

\* Remote payloads the publisher may serve inside the fenced block
RemoteMarkers == Arr(<<Mk(<<1>>, "Aldor", "city", 10, 20)>>)
RemoteConfig ==
    [imageWidth |-> 800, imageHeight |-> 600,
     currentLocation |-> [name |-> "Aldor", x |-> 10, y |-> 20, zoom |-> 1]]

\* A text handed to JSON.parse: it throws unless the text is well formed
Doc(v) == [wellformed |-> TRUE, value |-> v]
NotJson == [wellformed |-> FALSE, value |-> Undefined]

\* Outcomes of fetch(OBSIDIAN_PUBLISH_URL): net = "error" when fetch rejects,
\* ok = response.ok, fence = "none" | "empty" | "json" for the ```json block
\* of the body, doc = the text captured inside the block.
Response(net, ok, fence, doc) == [net |-> net, ok |-> ok, fence |-> fence, doc |-> doc]
Responses ==
    { Response("error", FALSE, "none", NotJson),
      Response("ok", FALSE, "none", NotJson),
      Response("ok", TRUE, "none", NotJson),
      Response("ok", TRUE, "json", NotJson),
      Response("ok", TRUE, "json", Doc(Obj([config |-> Obj(RemoteConfig), markers |-> RemoteMarkers]))) }

(***************************************************************************)
(* fetchMapData                                                            *)
(***************************************************************************)
Fallback == [markers |-> DEFAULT_MARKERS, config |-> MAP_CONFIG]

\* TRUE when fetchMapData returns from one of its fallback returns
FetchFails(resp) ==
    \/ resp.net = "error"
    \/ ~resp.ok
    \/ resp.fence # "json"
    \/ ~resp.doc.wellformed
    \/ resp.doc.value.t # "object"
    \/ Field(resp.doc.value, "config").t # "object"

FetchMapData(resp) ==
    IF FetchFails(resp) THEN Fallback
    ELSE LET data == resp.doc.value
             config == Field(data, "config").fields IN
         [markers |-> Field(data, "markers"),
          config |-> [imageWidth |-> config.imageWidth,
                      imageHeight |-> config.imageHeight,
                      publishBaseUrl |-> MAP_CONFIG.publishBaseUrl,
                      currentLocation |-> config.currentLocation]]

(***************************************************************************)
(* useUndoRedo                                                             *)
(***************************************************************************)
\* const state = history[currentIndex] ?? initialState
StateOf(h, i, initialState) == Coalesce(At(h, i), initialState)
state == StateOf(history, currentIndex, savedMarkers)
canUndo == currentIndex > 0
canRedo == currentIndex < Len(history) - 1

\* setState that appends without dropping the entries after the current one
SetHistory_KeepsFuture(prev, captured, newState) ==
    LET newHistory == Append(prev, newState) IN
    IF Len(newHistory) > maxHistory THEN Tail(newHistory) ELSE newHistory
\* setState that never drops the oldest entry
SetHistory_NoShift(prev, captured, newState) ==
    Append(Slice0(prev, captured + 1), newState)
\* The updater handed to setHistory by a setState created when currentIndex
\* was `captured`
SetHistory(prev, captured, newState) ==
    LET newHistory == Append(Slice0(prev, captured + 1), newState) IN
    IF Len(newHistory) > maxHistory THEN Tail(newHistory) ELSE newHistory
\* setState that advances the index without clamping it
SetIndex_Unclamped(prev) == prev + 1
\* The updater handed to setCurrentIndex by setState
SetIndex(prev) == Min(prev + 1, maxHistory - 1)

\* setState(newState) of the render with currentIndex = captured
SetState(newState, captured) ==
    /\ history' = SetHistory(history, captured, newState)
    /\ currentIndex' = SetIndex(currentIndex)

\* undo guarded by currentIndex >= 0
UndoEnabled_AtZero(captured) == captured >= 0
\* undo / redo of the render with currentIndex = captured: the guard reads
\* the captured index, the updater runs on the latest one
UndoEnabled(captured) == captured > 0
RedoEnabled(captured, len) == captured < len - 1
UndoIndex(prev, captured) == IF UndoEnabled(captured) THEN prev - 1 ELSE prev
RedoIndex(prev, captured, len) == IF RedoEnabled(captured, len) THEN prev + 1 ELSE prev

(***************************************************************************)
(* useMarkers                                                              *)
(***************************************************************************)
\* ghost record of the step just taken
Did(op) == [op |-> op, call |-> "none", started |-> FALSE, fetched |-> Undefined,
            failed |-> FALSE, edited |-> FALSE, result |-> "none",
            arg |-> Undefined, before |-> Undefined, moved |-> FALSE,
            prev |-> "none", prevBefore |-> Undefined, prevMoved |-> FALSE,
            dropped |-> FALSE, id |-> <<>>]

\* Effects still to run after the last commit
RefreshEffectPending == refreshDep # currentIndex
SaveEffectPending == ~RefreshEffectPending /\ savedMarkers # state
Quiet == ~RefreshEffectPending /\ ~SaveEffectPending

\* An event that may start a refresh is handled only while the model has
\* room for one more suspended refresh
Room == Len(inflight) < MaxInflight

\* A local operation was issued while these refreshes were suspended
MarkEdited(inf) == [i \in DOMAIN inf |-> [inf[i] EXCEPT !.edited = TRUE]]

\* the throttle with <= CACHE_DURATION
Throttled_Inclusive(force, lf, t) ==
    ~force /\ lf # <<>> /\ t - ParseInt(lf) <= CACHE_DURATION
\* if (!force && lastFetch && now - parseInt(lastFetch) < CACHE_DURATION) return
Throttled(force, lf, t) == ~force /\ lf # <<>> /\ t - ParseInt(lf) < CACHE_DURATION

\* refreshFromSource(force) up to its await
RefreshFromSource(force, op) ==
    /\ UNCHANGED <<viewVars, history, currentIndex, savedMarkers, savedConfig, mapConfig,
                   lastFetch, storageFull, now>>
    /\ ops' = IF op \in {"mount", "effect"} THEN ops ELSE ops + 1
    /\ IF Throttled(force, lastFetch, now)
       THEN /\ UNCHANGED <<isLoading, inflight>>
            /\ last' = [Did(op) EXCEPT !.call = IF force THEN "forced" ELSE "auto"]
       ELSE /\ isLoading' = TRUE
            /\ inflight' = Append(inflight,
                   [idx |-> currentIndex, at |-> now, edited |-> FALSE])
            /\ last' = [Did(op) EXCEPT !.call = IF force THEN "forced" ELSE "auto",
                                       !.started = TRUE]

\* useEffect(() => { refreshFromSource(); }, [refreshFromSource])
RefreshEffect ==
    /\ RefreshEffectPending
    /\ refreshDep' = currentIndex
    /\ RefreshFromSource(FALSE, IF refreshDep = -1 THEN "mount" ELSE "effect")

\* an auto-save effect that runs without writing the slot
SaveEffect_SkipsWrite ==
    /\ SaveEffectPending
    /\ last' = Did("save")
    /\ UNCHANGED <<viewVars, history, currentIndex, savedMarkers, savedConfig, mapConfig, isLoading,
                   lastFetch, storageFull, now, ops, inflight, refreshDep>>
\* useEffect(() => { setSavedMarkers(markers); }, [markers, setSavedMarkers])
SaveEffect ==
    /\ SaveEffectPending
    /\ savedMarkers' = state
    /\ last' = Did("save")
    /\ UNCHANGED <<viewVars, history, currentIndex, savedConfig, mapConfig, isLoading,
                   lastFetch, storageFull, now, ops, inflight, refreshDep>>

\* ControlPanel's sync button (disabled while isLoading): refreshFromSource(true)
Sync ==
    /\ Quiet
    /\ ops < MaxOps
    /\ Room
    /\ ~isLoading
    /\ UNCHANGED refreshDep
    /\ RefreshFromSource(TRUE, "sync")

\* resetMarkers, from the reset confirmation
ResetMarkers ==
    /\ Quiet
    /\ ops < MaxOps
    /\ Room
    /\ UNCHANGED refreshDep
    /\ RefreshFromSource(TRUE, "reset")

\* setIsLoading(false) as the last statement of the try block
LoadingAfterRefresh_InTry(threw) == threw
\* finally { setIsLoading(false); }: the flag after the continuation, whether
\* or not its try block threw
LoadingAfterRefresh(threw) == FALSE

RemoveAt(s, i) == SubSeq(s, 1, i - 1) \o SubSeq(s, i + 1, Len(s))

\* The continuation of refreshFromSource after `await fetchMapData()`.  When
\* localStorage.setItem(LAST_FETCH_KEY, ...) throws, the catch block logs and
\* the timestamp is not recorded.
RefreshComplete(i, resp) ==
    LET call == inflight[i]
        fresh == FetchMapData(resp) IN
    /\ Quiet
    /\ savedMarkers' = fresh.markers
    /\ SetState(fresh.markers, call.idx)
    /\ savedConfig' = fresh.config
    /\ mapConfig' = fresh.config
    /\ lastFetch' = IF storageFull THEN lastFetch ELSE NumToStr(call.at)
    /\ isLoading' = LoadingAfterRefresh(storageFull)
    /\ inflight' = RemoveAt(inflight, i)
    /\ last' = [Did("complete") EXCEPT !.fetched = fresh.markers,
                    !.failed = FetchFails(resp), !.edited = call.edited]
    /\ UNCHANGED <<viewVars, storageFull, now, ops, refreshDep>>

\* a mutation handler that also puts the configuration back to its defaults
Mutate_ResetsConfig(newList, op, id) ==
    /\ ops < MaxOps
    /\ Room
    /\ ops' = ops + 1
    /\ SetState(newList, currentIndex)
    /\ inflight' = MarkEdited(inflight)
    /\ last' = [Did(op) EXCEPT !.arg = newList, !.before = state, !.id = id]
    /\ mapConfig' = MAP_CONFIG
    /\ savedConfig' = MAP_CONFIG
    /\ UNCHANGED <<viewVars, savedMarkers, isLoading, lastFetch, storageFull, now, refreshDep>>
\* A mutation handler pushing newList through setMarkersState
Mutate(newList, op, id) ==
    /\ ops < MaxOps
    /\ Room
    /\ ops' = ops + 1
    /\ SetState(newList, currentIndex)
    /\ inflight' = MarkEdited(inflight)
    /\ last' = [Did(op) EXCEPT !.arg = newList, !.before = state, !.id = id]
    /\ UNCHANGED <<viewVars, savedMarkers, savedConfig, mapConfig, isLoading, lastFetch,
                   storageFull, now, refreshDep>>

addMarker(marker) ==
    /\ Quiet
    /\ IsArray(state)
    /\ Len(state.items) < MaxMarkers
    /\ LET newMarker == Spread(marker, [id |-> NumToStr(now)]) IN
       Mutate(Arr(Append(state.items, newMarker)), "add", newMarker.id)

MapUpdate(items, id, updates) ==
    [k \in DOMAIN items |-> IF items[k].id = id THEN Spread(items[k], updates) ELSE items[k]]

updateMarker(id, updates, op) ==
    /\ Quiet
    /\ IsArray(state)
    /\ Mutate(Arr(MapUpdate(state.items, id, updates)), op, id)

deleteMarker(id) ==
    /\ Quiet
    /\ IsArray(state)
    /\ LET Keep(m) == m.id # id IN
       Mutate(Arr(SelectSeq(state.items, Keep)), "delete", id)

\* What importMarkers does with the text: which return it leaves from
ImportOutcome(doc) ==
    IF ~doc.wellformed THEN "invalid_json"                      \* JSON.parse throws
    ELSE IF doc.value.t \in {"null", "undefined"} THEN "invalid_json"  \* imported.config throws
    ELSE IF /\ Truthy(Field(doc.value, "config"))
            /\ Truthy(Field(doc.value, "markers"))
            /\ IsArray(Field(doc.value, "markers")) THEN "full"
    ELSE IF IsArray(doc.value) THEN "array"
    ELSE "invalid_format"

\* The list importMarkers hands to setMarkersState: imported.markers of the
\* full shape, imported itself of the array shape
ImportedList(doc) ==
    IF IsArray(doc.value) THEN doc.value ELSE Field(doc.value, "markers")

\* importMarkers that calls setMarkersState before it tests the shape
ImportPushes_BeforeShapeTest(outcome) == outcome # "invalid_json"
\* TRUE on the returns of importMarkers that are preceded by setMarkersState
ImportPushes(outcome) == outcome \in {"full", "array"}

\* importMarkers that merges the config of the array shape as well
ImportMergesConfig_AnyShape(doc) == Field(doc.value, "config").t = "object"
\* if (imported.config.currentLocation) inside the full-shape branch
ImportMergesConfig(doc) ==
    /\ ImportOutcome(doc) = "full"
    /\ Field(doc.value, "config").t = "object"
    /\ "currentLocation" \in DOMAIN Field(doc.value, "config").fields

\* { success: true } or the failure the return carries
ImportResult(outcome) == IF outcome \in {"full", "array"} THEN "success" ELSE outcome

importMarkers(doc) ==
    LET outcome == ImportOutcome(doc)
        config == Field(doc.value, "config").fields IN
    /\ Quiet
    /\ ops < MaxOps
    /\ Room
    /\ ops' = ops + 1
    /\ UNCHANGED <<viewVars, savedMarkers, isLoading, lastFetch, storageFull, now, refreshDep>>
    /\ last' = [Did("import") EXCEPT !.result = ImportResult(outcome), !.arg = doc,
                                     !.before = state]
    /\ IF ImportPushes(outcome)
       THEN /\ SetState(ImportedList(doc), currentIndex)
            /\ inflight' = MarkEdited(inflight)
       ELSE UNCHANGED <<history, currentIndex, inflight>>
    /\ IF ImportMergesConfig(doc)
       THEN /\ mapConfig' = Spread(mapConfig, config)
            /\ savedConfig' = Spread(savedConfig, config)
       ELSE UNCHANGED <<mapConfig, savedConfig>>

(***************************************************************************)
(* useMarkers: the filter pipeline.  Text is a sequence of characters.     *)
(***************************************************************************)
MarkerTypes == {"continent", "city", "region", "location", "town"}
DefaultFilters == [search |-> <<>>, types |-> [t \in MarkerTypes |-> TRUE]]

\* String.prototype.trim()
RECURSIVE Trim(_)
Trim(s) ==
    IF s = <<>> THEN s
    ELSE IF Head(s) = " " THEN Trim(Tail(s))
    ELSE IF s[Len(s)] = " " THEN Trim(SubSeq(s, 1, Len(s) - 1))
    ELSE s

\* Fuse.js compares without regard to case (isCaseSensitive: false)
Lower(c) == IF c = "A" THEN "a" ELSE IF c = "O" THEN "o" ELSE c

\* characters in which a stretch of text differs from the pattern laid over it
Mismatches(text, pattern, at) ==
    Cardinality({k \in DOMAIN pattern : Lower(text[at + k - 1]) # Lower(pattern[k])})

\* the fewest errors with which the pattern is found anywhere in the text
\* (ignoreLocation: true); Len(pattern) + 1 when the text is too short
FuseErrors(text, pattern) ==
    LET starts == 1 .. (Len(text) - Len(pattern) + 1)
        errs == {Mismatches(text, pattern, at) : at \in starts} IN
    IF errs = {} THEN Len(pattern) + 1
    ELSE CHOOSE e \in errs : \A f \in errs : e <= f

\* keys: ['name', 'description']: the better of the two fields
FuseItemErrors(m, pattern) ==
    LET byName == FuseErrors(m.name, pattern)
        byDesc == IF "description" \in DOMAIN m
                  THEN FuseErrors(m.description, pattern) ELSE Len(pattern) + 1 IN
    Min(byName, byDesc)

\* threshold: 0.4 on the share of the pattern that may be in error
FuseWithinThreshold(errors, pattern) == 10 * errors <= 4 * Len(pattern)

\* the items found with this many errors or more, ordered by relevance:
\* fewer errors first, equal scores in list order
RECURSIVE FuseRanked(_, _, _)
FuseRanked(list, pattern, errors) ==
    IF ~FuseWithinThreshold(errors, pattern) THEN <<>>
    ELSE SelectSeq(list, LAMBDA m : FuseItemErrors(m, pattern) = errors)
            \o FuseRanked(list, pattern, errors + 1)

\* new Fuse(list, options).search(pattern).map(result => result.item);
\* minMatchCharLength: 2
FuseSearch(list, pattern) ==
    IF Len(pattern) < 2 THEN <<>> ELSE FuseRanked(list, pattern, 0)

\* filters.types[marker.type]
TypeEnabled_Always(types, m) == TRUE
TypeEnabled(types, m) ==
    /\ "type" \in DOMAIN m
    /\ m.type \in DOMAIN types
    /\ types[m.type]

\* !debouncedSearch || debouncedSearch.trim().length < 2
SearchTooShort_Untrimmed(search) == Len(search) < 2
SearchTooShort(search) == search = <<>> \/ Len(Trim(search)) < 2

FilteredMarkers(markers, types, search) ==
    IF ~IsArray(markers) THEN <<>>
    ELSE LET typeFiltered == SelectSeq(markers.items, LAMBDA m : TypeEnabled(types, m)) IN
         IF SearchTooShort(search) THEN typeFiltered
         ELSE FuseSearch(typeFiltered, Trim(search))

filteredMarkers == FilteredMarkers(state, filters.types, debouncedSearch)

\* a step of the presentation layer leaves the repository as it is
ViewFrame ==
    UNCHANGED <<history, currentIndex, savedMarkers, savedConfig, mapConfig, isLoading,
                lastFetch, storageFull, now, ops, inflight, refreshDep>>

\* an event handled by the mounted repository, counted like its other events
RepositoryEvent ==
    /\ Quiet
    /\ ops < MaxOps
    /\ ops' = ops + 1
    /\ UNCHANGED <<history, currentIndex, savedMarkers, savedConfig, mapConfig, isLoading,
                   lastFetch, storageFull, now, inflight, refreshDep>>

setSearch(search) ==
    /\ filters' = [filters EXCEPT !.search = search]
    /\ last' = [Did("setSearch") EXCEPT !.arg = search]
    /\ UNCHANGED <<debouncedSearch, currentZoom, location, clipboard, shared, point, latlng>>

toggleTypeFilter(type) ==
    /\ filters' = [filters EXCEPT !.types[type] = ~filters.types[type]]
    /\ last' = [Did("toggleTypeFilter") EXCEPT !.arg = type, !.before = filteredMarkers]
    /\ UNCHANGED <<debouncedSearch, currentZoom, location, clipboard, shared, point, latlng>>

setAllTypeFilters(enabled) ==
    /\ filters' = [filters EXCEPT !.types = [t \in MarkerTypes |-> enabled]]
    /\ last' = [Did("setAllTypeFilters") EXCEPT !.arg = enabled]
    /\ UNCHANGED <<debouncedSearch, currentZoom, location, clipboard, shared, point, latlng>>

\* useDebounce: the value follows filters.search once it has rested 150 ms
DebounceSettles ==
    /\ debouncedSearch # filters.search
    /\ debouncedSearch' = filters.search
    /\ last' = Did("debounce")
    /\ UNCHANGED <<filters, currentZoom, location, clipboard, shared, point, latlng>>
    /\ ViewFrame

\* JSON.stringify of an object with these properties: a property whose
\* value is undefined is left out of the text
JsonStringify(fields) ==
    Doc(Obj([k \in {f \in DOMAIN fields : fields[f].t # "undefined"} |-> fields[k]]))

\* an export of what the map shows instead of the whole list
exportMarkers_Filtered ==
    JsonStringify([config |-> Obj([imageWidth |-> mapConfig.imageWidth,
                                   imageHeight |-> mapConfig.imageHeight,
                                   currentLocation |-> mapConfig.currentLocation]),
                   markers |-> Arr(filteredMarkers)])
\* exportMarkers(): the text of { config: {...}, markers }
exportMarkers ==
    JsonStringify([config |-> Obj([imageWidth |-> mapConfig.imageWidth,
                                   imageHeight |-> mapConfig.imageHeight,
                                   currentLocation |-> mapConfig.currentLocation]),
                   markers |-> state])

moveMarker(id, x, y) == updateMarker(id, [x |-> x, y |-> y], "move")

undo_DropsFuture ==
    /\ Quiet
    /\ ops < MaxOps
    /\ Room
    /\ ops' = ops + 1
    /\ currentIndex' = UndoIndex(currentIndex, currentIndex)
    /\ history' = SubSeq(history, 1, currentIndex' + 1)
    /\ inflight' = MarkEdited(inflight)
    /\ last' = Did("undo")
    /\ UNCHANGED <<viewVars, savedMarkers, savedConfig, mapConfig, isLoading, lastFetch,
                   storageFull, now, refreshDep>>

undo ==
    /\ Quiet
    /\ ops < MaxOps
    /\ Room
    /\ ops' = ops + 1
    /\ currentIndex' = UndoIndex(currentIndex, currentIndex)
    /\ inflight' = MarkEdited(inflight)
    /\ last' = Did("undo")
    /\ UNCHANGED <<viewVars, history, savedMarkers, savedConfig, mapConfig, isLoading, lastFetch,
                   storageFull, now, refreshDep>>

redo ==
    /\ Quiet
    /\ ops < MaxOps
    /\ Room
    /\ ops' = ops + 1
    /\ currentIndex' = RedoIndex(currentIndex, currentIndex, Len(history))
    /\ inflight' = MarkEdited(inflight)
    /\ last' = Did("redo")
    /\ UNCHANGED <<viewVars, history, savedMarkers, savedConfig, mapConfig, isLoading, lastFetch,
                   storageFull, now, refreshDep>>

\* The clock advances between two events
TickSizes == {1, CACHE_DURATION - 1}
Tick(d) ==
    /\ ops < MaxOps
    /\ ops' = ops + 1
    /\ now' = now + d
    /\ last' = Did("tick")
    /\ UNCHANGED <<viewVars, history, currentIndex, savedMarkers, savedConfig, mapConfig,
                   isLoading, lastFetch, storageFull, inflight, refreshDep>>

(***************************************************************************)
(* App: zoom-dependent visibility.  Zoom levels, pixel positions and       *)
(* Leaflet coordinates are numbers with a fraction: the model counts them  *)
(* in hundredths, so 1.5 is 150.                                           *)
(***************************************************************************)
Scale == 100
Abs(n) == IF n < 0 THEN -n ELSE n
\* Math.round: the nearest integer, a half rounded up
MathRound(n) == ((n + Scale \div 2) \div Scale) * Scale

ZOOM_THRESHOLDS ==
    [continent |-> -300, region |-> -150, city |-> -50, town |-> 50, location |-> 50]

\* currentZoom >= ZOOM_THRESHOLDS[marker.type]; false when the table has no such type
ZoomVisible_Above(zoom, m) == m.type \in DOMAIN ZOOM_THRESHOLDS /\ zoom > ZOOM_THRESHOLDS[m.type]
ZoomVisible(zoom, m) == m.type \in DOMAIN ZOOM_THRESHOLDS /\ zoom >= ZOOM_THRESHOLDS[m.type]

zoomFilteredMarkers == SelectSeq(filteredMarkers, LAMBDA m : ZoomVisible(currentZoom, m))

\* <ZoomTracker onZoomChange={setCurrentZoom} />
onZoomChange(zoom) ==
    /\ currentZoom' = zoom
    /\ last' = [Did("zoom") EXCEPT !.arg = zoom, !.before = zoomFilteredMarkers]
    /\ UNCHANGED <<filters, debouncedSearch, location, clipboard, shared, point, latlng>>
    /\ ViewFrame

\* const data = exportMarkers()
Export ==
    /\ last' = [Did("export") EXCEPT !.result = exportMarkers]
    /\ UNCHANGED viewVars
    /\ ViewFrame

(***************************************************************************)
(* utils/shareUrl                                                          *)
(***************************************************************************)
DigitChars == <<"0", "1", "2", "3", "4", "5", "6", "7", "8", "9">>
IsDigit(c) == \E i \in DOMAIN DigitChars : DigitChars[i] = c
DigitVal(c) == (CHOOSE i \in DOMAIN DigitChars : DigitChars[i] = c) - 1
\* the decimal digits of a non-negative integer, as text
Str(n) == [i \in DOMAIN NumToStr(n) |-> DigitChars[NumToStr(n)[i] + 1]]

\* Math.round(v).toString()
RoundedToString(v) ==
    LET n == MathRound(v) \div Scale IN
    IF n < 0 THEN <<"-">> \o Str(-n) ELSE Str(n)

\* v.toFixed(1): one digit after the point, a half rounded away from zero,
\* the sign of a negative v kept even when the digits are all zero
ToFixed1(v) ==
    LET tenths == (Abs(v) + 5) \div 10
        digits == Str(tenths \div 10) \o <<".">> \o Str(tenths % 10) IN
    IF v < 0 THEN <<"-">> \o digits ELSE digits

\* the longest run of digits at the start of a text
RECURSIVE DigitPrefix(_)
DigitPrefix(s) ==
    IF s # <<>> /\ IsDigit(Head(s)) THEN <<Head(s)>> \o DigitPrefix(Tail(s)) ELSE <<>>

RECURSIVE DigitsValue(_)
DigitsValue(s) ==
    IF s = <<>> THEN 0 ELSE 10 * DigitsValue(SubSeq(s, 1, Len(s) - 1)) + DigitVal(s[Len(s)])

RECURSIVE TrimStart(_)
TrimStart(s) == IF s # <<>> /\ Head(s) = " " THEN TrimStart(Tail(s)) ELSE s

NaN == [nan |-> TRUE, v |-> 0]
\* parseFloat: leading blanks skipped, then the longest prefix that reads as
\* a decimal numeral; whatever follows it is ignored; NaN when there is no
\* such prefix.  Digits past the second decimal are dropped by the model.
ParseFloat(s) ==
    LET t == TrimStart(s)
        signed == t # <<>> /\ Head(t) \in {"-", "+"}
        body == IF signed THEN Tail(t) ELSE t
        int == DigitPrefix(body)
        after == SubSeq(body, Len(int) + 1, Len(body))
        frac == IF after # <<>> /\ Head(after) = "." THEN DigitPrefix(Tail(after)) ELSE <<>>
        cents == SubSeq(frac \o <<"0", "0">>, 1, 2)
        mag == DigitsValue(int) * Scale + DigitsValue(cents) IN
    IF int = <<>> /\ frac = <<>> THEN NaN
    ELSE [nan |-> FALSE, v |-> IF signed /\ Head(t) = "-" THEN -mag ELSE mag]

\* URLSearchParams: the parameters present, by name
EmptyQuery == [k \in {} |-> <<>>]
QuerySet(q, k, v) == [j \in DOMAIN q \cup {k} |-> IF j = k THEN v ELSE q[j]]
\* !params.get(k): the parameter is absent or empty
QueryFalsy(q, k) == k \notin DOMAIN q \/ q[k] = <<>>

\* url.search = ''
ClearedSearch_Kept(search) == search
ClearedSearch(search) == EmptyQuery

\* generateShareUrl(params): the query of the URL it returns
generateShareUrl(params, search) ==
    LET view == QuerySet(QuerySet(QuerySet(ClearedSearch(search),
                    "x", RoundedToString(params.x)),
                    "y", RoundedToString(params.y)),
                    "z", ToFixed1(params.zoom)) IN
    IF "marker" \in DOMAIN params /\ params.marker # <<>>
    THEN QuerySet(view, "marker", params.marker)
    ELSE view

\* parsed.x < 0 || parsed.x > 20000, parsed.zoom < -5 || parsed.zoom > 5
OutOfRange(v, lo, hi) == v < lo * Scale \/ v > hi * Scale

\* parseShareUrl() of window.location.search
parseShareUrl(search) ==
    IF QueryFalsy(search, "x") \/ QueryFalsy(search, "y") \/ QueryFalsy(search, "z") THEN Null
    ELSE LET x == ParseFloat(search["x"])
             y == ParseFloat(search["y"])
             zoom == ParseFloat(search["z"])
             parsed == [x |-> x.v, y |-> y.v, zoom |-> zoom.v] IN
         IF x.nan \/ y.nan \/ zoom.nan THEN Null
         ELSE IF OutOfRange(x.v, 0, 20000) \/ OutOfRange(y.v, 0, 20000) THEN Null
         ELSE IF OutOfRange(zoom.v, -5, 5) THEN Null
         ELSE IF ~QueryFalsy(search, "marker")
              THEN [t |-> "object", fields |-> Spread(parsed, [marker |-> search["marker"]])]
              ELSE [t |-> "object", fields |-> parsed]

\* handleShare: the link of a view is copied
Share(params) ==
    /\ clipboard' = generateShareUrl(params, location)
    /\ last' = [Did("share") EXCEPT !.arg = params]
    /\ UNCHANGED <<filters, debouncedSearch, currentZoom, location, shared, point, latlng>>
    /\ ViewFrame

\* the page is opened at an address with this query: App reads parseShareUrl()
Open(search, op) ==
    /\ location' = search
    /\ shared' = parseShareUrl(search)
    /\ last' = [Did(op) EXCEPT !.prev = last.op,
                               !.arg = IF last.op = "share" THEN last.arg ELSE Undefined]
    /\ UNCHANGED <<filters, debouncedSearch, currentZoom, clipboard, point, latlng>>
    /\ ViewFrame

OpenLink == Open(clipboard, "open")

(***************************************************************************)
(* utils/coordinates                                                       *)
(***************************************************************************)
toLeaflet_NoFlip(x, y) == <<y, x>>
toLeaflet(x, y) == <<MAP_CONFIG.imageHeight * Scale - y, x>>

fromLeaflet(lat, lng) ==
    [x |-> MathRound(lng), y |-> MathRound(MAP_CONFIG.imageHeight * Scale - lat)]

CoordFrame ==
    UNCHANGED <<filters, debouncedSearch, currentZoom, location, clipboard, shared>>

\* <MapMarker>: position = toLeaflet(marker.x, marker.y)
PlaceMarker(p) ==
    /\ point' = p
    /\ latlng' = toLeaflet(p.x, p.y)
    /\ last' = [Did("place") EXCEPT !.arg = p]
    /\ CoordFrame
    /\ ViewFrame

\* a click on the map: fromLeaflet(e.latlng.lat, e.latlng.lng)
MapClick(ll) ==
    /\ latlng' = ll
    /\ point' = fromLeaflet(ll[1], ll[2])
    /\ last' = [Did("click") EXCEPT !.arg = ll]
    /\ CoordFrame
    /\ ViewFrame

\* handleShare: coordsFromLeaflet(center.lat, center.lng)
ReadPosition ==
    /\ point' = fromLeaflet(latlng[1], latlng[2])
    /\ last' = [Did("read") EXCEPT !.prev = last.op, !.before = point]
    /\ UNCHANGED latlng
    /\ CoordFrame
    /\ ViewFrame

ViewInit ==
    /\ filters = DefaultFilters
    /\ debouncedSearch = filters.search
    /\ currentZoom = mapConfig.currentLocation.zoom * Scale
    /\ location = EmptyQuery
    /\ clipboard = EmptyQuery
    /\ shared = parseShareUrl(location)
    /\ point = [x |-> 0, y |-> 0]
    /\ latlng = toLeaflet(point.x, point.y)

(***************************************************************************)
(* Inputs                                                                  *)
(***************************************************************************)
NewMarkers == {[name |-> "Treston", type |-> "city", x |-> 100, y |-> 200]}
Updates == {[name |-> "Riverton"]}
UnknownId == <<9>>
IdsOf(v) == IF IsArray(v) THEN {v.items[k].id : k \in DOMAIN v.items} ELSE {}
Ids == IdsOf(state) \cup {UnknownId}

ImportedMarkers == Arr(<<Mk(<<1>>, "A", "town", 1, 1)>>)
ImportedConfig ==
    [imageWidth |-> 800, imageHeight |-> 600,
     currentLocation |-> [name |-> "A", x |-> 1, y |-> 1, zoom |-> 0]]
ImportDocs ==
    { NotJson,
      Doc(Null),
      Doc(ImportedMarkers),
      Doc(Obj([markers |-> ImportedMarkers])),
      Doc([t |-> "number", n |-> 5]),
      Doc(Obj([config |-> Obj([imageWidth |-> 800, imageHeight |-> 600]),
               markers |-> ImportedMarkers])),
      Doc(Obj([config |-> Obj(ImportedConfig), markers |-> ImportedMarkers])) }

Epoch0 == CACHE_DURATION
\* The marker slot as an earlier session left it
CachedMarkers == Arr(<<>>)

Init ==
    /\ savedMarkers = CachedMarkers
    /\ savedConfig = MAP_CONFIG
    /\ history = <<savedMarkers>>
    /\ currentIndex = 0
    /\ mapConfig = savedConfig
    /\ isLoading = FALSE
    /\ lastFetch \in {<<>>, NumToStr(Epoch0 - CACHE_DURATION + 1)}
    /\ now = Epoch0
    /\ storageFull \in BOOLEAN
    /\ ops = 0
    /\ inflight = <<>>
    /\ refreshDep = -1
    /\ ViewInit
    /\ last = Did("init")

FetchSettles == \E i \in DOMAIN inflight, resp \in Responses : RefreshComplete(i, resp)
Add == \E m \in NewMarkers : addMarker(m)
Update == \E id \in Ids, u \in Updates : updateMarker(id, u, "update")
Delete == \E id \in Ids : deleteMarker(id)
Move == \E id \in Ids : moveMarker(id, 150, 250)
Import == \E doc \in ImportDocs \cup {exportMarkers} : importMarkers(doc)
ClockAdvances == \E d \in TickSizes : Tick(d)

Next ==
    \/ RefreshEffect
    \/ SaveEffect
    \/ Sync
    \/ ResetMarkers
    \/ FetchSettles
    \/ Add
    \/ Update
    \/ Delete
    \/ Move
    \/ Import
    \/ undo
    \/ redo
    \/ ClockAdvances

Spec == Init /\ [][Next]_vars

\* React runs pending effects, and a fetch settles
\* The repository with its filter operations
AppFilterTypes == {"city"}
AppSearches == {<<"e", "l">>}
SearchInApp == \E search \in AppSearches : setSearch(search) /\ RepositoryEvent
ToggleInApp == \E type \in AppFilterTypes : toggleTypeFilter(type) /\ RepositoryEvent
SetAllInApp == \E enabled \in BOOLEAN : setAllTypeFilters(enabled) /\ RepositoryEvent
NextApp ==
    \/ Next
    \/ SearchInApp
    \/ ToggleInApp
    \/ SetAllInApp

SpecApp == Init /\ [][NextApp]_vars

\* The repository with handlers that make two mutation calls before React
\* renders again: both calls belong to the same render, so both read its
\* `markers` and its setMarkersState, and the updaters they queue run one
\* after the other on the latest history and index.
Edit(op, id, payload) == [op |-> op, id |-> id, payload |-> payload]
RenderEdits ==
    {Edit("add", NumToStr(now), m) : m \in NewMarkers}
        \cup {Edit("update", id, u) : id \in IdsOf(state), u \in Updates}
        \cup {Edit("move", id, [x |-> 150, y |-> 250]) : id \in IdsOf(state)}
        \cup {Edit("delete", id, <<>>) : id \in IdsOf(state)}

\* the list a mutation call hands to setMarkersState when its render's
\* markers is `list`
EditResult(list, e) ==
    IF e.op = "add" THEN Arr(Append(list.items, Spread(e.payload, [id |-> e.id])))
    ELSE IF e.op = "delete" THEN Arr(SelectSeq(list.items, LAMBDA m : m.id # e.id))
    ELSE Arr(MapUpdate(list.items, e.id, e.payload))

TwoCalls ==
    /\ Quiet
    /\ IsArray(state)
    /\ ops < MaxOps
    /\ Room
    /\ ops' = ops + 1
    /\ \E first \in RenderEdits, second \in RenderEdits :
          /\ Len(EditResult(EditResult(state, first), second).items) <= MaxMarkers
          /\ history' = SetHistory(SetHistory(history, currentIndex, EditResult(state, first)),
                                   currentIndex, EditResult(state, second))
          /\ currentIndex' = SetIndex(SetIndex(currentIndex))
          /\ last' = [Did("two") EXCEPT !.arg = <<first, second>>, !.before = state]
    /\ inflight' = MarkEdited(inflight)
    /\ UNCHANGED <<viewVars, savedMarkers, savedConfig, mapConfig, isLoading, lastFetch,
                   storageFull, now, refreshDep>>

NextTurn ==
    \/ RefreshEffect
    \/ SaveEffect
    \/ FetchSettles
    \/ Add
    \/ Update
    \/ Delete
    \/ Move
    \/ TwoCalls

SpecTurn == Init /\ [][NextTurn]_vars

\* The repository under the map: the bounds of the map come from the live
\* config, the position of every marker and of every click from the
\* coordinate functions
safeMarkers == Coalesce(state, Arr(<<>>))
imageBounds == <<<<0, 0>>, <<mapConfig.imageHeight * Scale, mapConfig.imageWidth * Scale>>>>

\* <MapMarker> of a marker of the list: position = toLeaflet(marker.x, marker.y)
MarkerShown ==
    /\ Quiet
    /\ IsArray(safeMarkers)
    /\ \E k \in DOMAIN safeMarkers.items :
          PlaceMarker([x |-> safeMarkers.items[k].x * Scale, y |-> safeMarkers.items[k].y * Scale])

\* a click inside the bounds the map was given
BoundsClicked ==
    /\ Quiet
    /\ \E lat \in {0, imageBounds[2][1]}, lng \in {0, imageBounds[2][2]} : MapClick(<<lat, lng>>)

NextMap ==
    \/ RefreshEffect
    \/ SaveEffect
    \/ FetchSettles
    \/ Import
    \/ MarkerShown
    \/ BoundsClicked

SpecMap == Init /\ [][NextMap]_vars

\* The repository against every kind of published document: the blocks of
\* Responses, and parseable blocks that lack the config, lack the markers,
\* or carry something else than a list under `markers`
RemoteResponses ==
    Responses \cup
        { Response("ok", TRUE, "json", Doc(Obj([markers |-> RemoteMarkers]))),
          Response("ok", TRUE, "json", Doc(Obj([config |-> Obj(RemoteConfig)]))),
          Response("ok", TRUE, "json",
                   Doc(Obj([config |-> Obj(RemoteConfig), markers |-> Obj(RemoteConfig)]))) }

AnyFetchSettles == \E i \in DOMAIN inflight, resp \in RemoteResponses : RefreshComplete(i, resp)

NextRemote ==
    \/ RefreshEffect
    \/ SaveEffect
    \/ Sync
    \/ ResetMarkers
    \/ AnyFetchSettles
    \/ Delete
    \/ ClockAdvances

SpecRemote == Init /\ [][NextRemote]_vars

SpecLive ==
    /\ Spec
    /\ WF_vars(RefreshEffect)
    /\ WF_vars(SaveEffect)
    /\ WF_vars(FetchSettles)

(***************************************************************************)
(* The History Engine on its own: useUndoRedo driven by a component that   *)
(* makes every call from its current render.                               *)
(***************************************************************************)
EngineDid(op, arg, moved) ==
    [Did(op) EXCEPT !.arg = arg, !.before = state, !.moved = moved,
                    !.prev = last.op, !.prevBefore = last.before, !.prevMoved = last.moved]

EngineFrame ==
    UNCHANGED <<viewVars, savedMarkers, savedConfig, mapConfig, isLoading, lastFetch, storageFull,
                now, ops, inflight, refreshDep>>

setState(newState) ==
    /\ SetState(newState, currentIndex)
    /\ last' = [EngineDid("setState", newState, TRUE) EXCEPT
                    !.dropped = Len(Slice0(history, currentIndex + 1)) + 1 > maxHistory]
    /\ EngineFrame

EngineUndo ==
    /\ currentIndex' = UndoIndex(currentIndex, currentIndex)
    /\ last' = EngineDid("undo", Undefined, currentIndex' # currentIndex)
    /\ UNCHANGED history
    /\ EngineFrame

EngineRedo ==
    /\ currentIndex' = RedoIndex(currentIndex, currentIndex, Len(history))
    /\ last' = EngineDid("redo", Undefined, currentIndex' # currentIndex)
    /\ UNCHANGED history
    /\ EngineFrame

\* clearHistory that goes back to the state the hook was created with
clearHistory_ToInitialState ==
    /\ history' = <<savedMarkers>>
    /\ currentIndex' = 0
    /\ last' = EngineDid("clearHistory", Undefined, TRUE)
    /\ EngineFrame
clearHistory ==
    /\ history' = <<state>>
    /\ currentIndex' = 0
    /\ last' = EngineDid("clearHistory", Undefined, TRUE)
    /\ EngineFrame

EngineValues == {Arr(<<>>), DEFAULT_MARKERS, RemoteMarkers, ImportedMarkers}

InitEngine ==
    /\ savedMarkers \in EngineValues
    /\ savedConfig = MAP_CONFIG
    /\ history = <<savedMarkers>>
    /\ currentIndex = 0
    /\ mapConfig = savedConfig
    /\ isLoading = FALSE
    /\ lastFetch = <<>>
    /\ storageFull = FALSE
    /\ now = Epoch0
    /\ ops = 0
    /\ inflight = <<>>
    /\ refreshDep = -1
    /\ ViewInit
    /\ last = Did("init")

Push == \E v \in EngineValues : setState(v)

NextEngine ==
    \/ Push
    \/ EngineUndo
    \/ EngineRedo
    \/ clearHistory

SpecEngine == InitEngine /\ [][NextEngine]_vars

(***************************************************************************)
(* The presentation layer over a repository at rest: the filter pipeline,  *)
(* the zoom stage and the export, for marker lists of every type.          *)
(***************************************************************************)
Elm == Mk(<<1>>, <<"E", "l", "m">>, "city", 10, 20)
Oak == Spread(Mk(<<2>>, <<"O", "a", "k">>, "town", 30, 40), [description |-> <<"e", "l", "f">>])
Elk == Mk(<<3>>, <<"e", "l", "k">>, "continent", 50, 60)
Ash == Mk(<<4>>, <<"a", "s", "h">>, "region", 70, 80)
Yew == Mk(<<5>>, <<"y", "e", "w">>, "location", 90, 100)
ViewLists == {Arr(<<>>), Arr(<<Ash, Elk, Yew, Elm, Oak>>)}
ViewConfigs == {MAP_CONFIG, Spread(MAP_CONFIG, RemoteConfig)}
Searches == {<<>>, <<" ">>, <<" ", "e", " ">>, <<" ", "e", "l", "m">>}
\* minZoom={-3} maxZoom={2} zoomSnap={0.01}
ZoomLevels == {-300, -151, -150, -50, 50, 200}

RepositoryAtRest(list, config) ==
    /\ savedMarkers = list
    /\ savedConfig = config
    /\ history = <<savedMarkers>>
    /\ currentIndex = 0
    /\ mapConfig = savedConfig
    /\ isLoading = FALSE
    /\ lastFetch = <<>>
    /\ storageFull = FALSE
    /\ now = Epoch0
    /\ ops = 0
    /\ inflight = <<>>
    /\ refreshDep = currentIndex

InitView ==
    /\ \E list \in ViewLists, config \in ViewConfigs : RepositoryAtRest(list, config)
    /\ ViewInit
    /\ last = Did("init")

SearchTyped == \E search \in Searches : setSearch(search) /\ ViewFrame
TypeToggled == \E type \in MarkerTypes : toggleTypeFilter(type) /\ ViewFrame
AllTypesSet == \E enabled \in BOOLEAN : setAllTypeFilters(enabled) /\ ViewFrame
ZoomChanges == \E zoom \in ZoomLevels : onZoomChange(zoom)

NextView ==
    \/ SearchTyped
    \/ TypeToggled
    \/ AllTypesSet
    \/ DebounceSettles
    \/ ZoomChanges
    \/ Export

SpecView == InitView /\ [][NextView]_vars

(***************************************************************************)
(* The share-link codec: links are made from views and pages are opened    *)
(* at addresses, those of copied links and any other.                      *)
(***************************************************************************)
ShareXs == {0, 1050, 2000000}
ShareYs == {1999950}
ShareZooms == {-500, -126, -4, 500}
ShareMarkers == {<<>>, <<"m", "1">>}
SharedViews ==
    [x : ShareXs, y : ShareYs, zoom : ShareZooms]
        \cup [x : ShareXs, y : ShareYs, zoom : ShareZooms, marker : ShareMarkers]

QueryXs == {<<>>, <<"0">>, <<"2", "0", "0", "0", "0">>, <<"2", "0", "0", "0", "1">>, <<"-", "1">>, <<"a", "b", "c">>, <<"1", "2", "a", "b", "c">>}
QueryYs == {<<"3", "0", "0">>}
QueryZs == {<<"5">>, <<"-", "5">>, <<"5", ".", "0", "1">>, <<"-", "5", ".", "1">>, <<"1", ".", "5", "x">>, <<"z">>}
Query(x, y, z) == [k \in {"x", "y", "z"} |-> IF k = "x" THEN x ELSE IF k = "y" THEN y ELSE z]
Without(q, gone) == [k \in DOMAIN q \ {gone} |-> q[k]]
ValidQuery == Query(<<"2", "0", "0", "0", "0">>, <<"3", "0", "0">>, <<"-", "5">>)
\* addresses with every value of each parameter, with a parameter left
\* out, with a marker, and with parameters of their own (?location=...)
Queries ==
    {Query(x, y, z) : x \in QueryXs, y \in QueryYs, z \in QueryZs}
        \cup {Without(ValidQuery, k) : k \in {"x", "y", "z"}}
        \cup {QuerySet(ValidQuery, "y", y) : y \in {<<"2", "0", "0", "0", "1">>, <<"-", "1">>, <<"y">>}}
        \cup {QuerySet(ValidQuery, "marker", m) : m \in ShareMarkers}
        \cup {QuerySet(ValidQuery, "location", <<"m", "1">>),
              QuerySet(EmptyQuery, "location", <<"m", "1">>)}

InitShare ==
    /\ RepositoryAtRest(DEFAULT_MARKERS, MAP_CONFIG)
    /\ ViewInit
    /\ last = Did("init")

ShareView == \E params \in SharedViews : Share(params)
Visit == \E search \in Queries : Open(search, "visit")

NextShare ==
    \/ ShareView
    \/ OpenLink
    \/ Visit

SpecShare == InitShare /\ [][NextShare]_vars

(***************************************************************************)
(* The coordinate transform: markers are placed on the map, the map is     *)
(* clicked, and positions are read back from it.                           *)
(***************************************************************************)
PointXs == {0, 100, 12300, 20000, 39900, MAP_CONFIG.imageWidth * Scale}
PointYs == {0, 100, 15000, 20000, 29900, MAP_CONFIG.imageHeight * Scale}
Points == [x : PointXs, y : PointYs]
\* where a click may land: between pixels as well
ClickLats == {0, 14949, 14950, 30000}
ClickLngs == {0, 51, 12349, 40000}

InitCoord ==
    /\ RepositoryAtRest(DEFAULT_MARKERS, MAP_CONFIG)
    /\ ViewInit
    /\ last = Did("init")

MarkerPlaced == \E p \in Points : PlaceMarker(p)
MapClicked == \E lat \in ClickLats, lng \in ClickLngs : MapClick(<<lat, lng>>)

NextCoord ==
    \/ MarkerPlaced
    \/ MapClicked
    \/ ReadPosition

SpecCoord == InitCoord /\ [][NextCoord]_vars

(***************************************************************************)
(* Properties                                                              *)
(***************************************************************************)
Refreshed == last.op = "complete"

\* C1: a refresh that completes after local operations were issued while it
\* was in flight leaves the fetched (or fallback) list as the current marker
\* list, whatever the index and the history length were.
C1_RefreshOverwritesEdits == (Refreshed /\ last.edited) => state = last.fetched

\* C2: after a completed refresh or reset the history is the single entry
\* holding the fresh list, and neither undo nor redo is possible.
C2_RefreshClearsHistory ==
    Refreshed => /\ history = <<last.fetched>>
                 /\ ~canUndo
                 /\ ~canRedo

\* C3: refreshFromSource is called by the mount effect once, at mount, and
\* otherwise only by a manual sync or a reset.
C3_RefreshOnlyAtMountOrOnDemand ==
    last.call # "none" => last.op \in {"mount", "sync", "reset"}

\* C4: a non-forced refreshFromSource call made while the last-fetch
\* timestamp exists and is younger than CACHE_DURATION changes nothing and
\* starts no fetch; every other call starts a fetch and raises the loading flag.
C4_ThrottleSkipsAndOnlyThen ==
    [][last'.call # "none" =>
         IF /\ last'.call = "auto"
            /\ lastFetch # <<>>
            /\ now - ParseInt(lastFetch) < CACHE_DURATION
         THEN UNCHANGED <<history, currentIndex, savedMarkers, savedConfig, mapConfig,
                          isLoading, lastFetch, inflight>>
         ELSE /\ Len(inflight') = Len(inflight) + 1
              /\ isLoading']_vars
C4_Witness ==
    /\ last.call = "auto"
    /\ ~last.started
    /\ lastFetch # <<>>
    /\ ~isLoading

\* C5: a loading flag that was raised is lowered again, and the flag is
\* down whenever no refresh is outstanding.
C5_LoadingReleased ==
    /\ [](inflight = <<>> => ~isLoading)
    /\ (isLoading ~> ~isLoading)
C5_Witness ==
    /\ Refreshed
    /\ storageFull
    /\ last.failed
    /\ ~isLoading

\* C6: a failed fetch makes the static default list and the default config
\* the live markers and config.
C6_FallbackBecomesLive ==
    (Refreshed /\ last.failed) => /\ state = DEFAULT_MARKERS
                                  /\ mapConfig = MAP_CONFIG

\* C7: at most one refresh is suspended at its fetch at any time.
C7_RefreshesSerialized == Len(inflight) <= 1

\* C8: undo right after a push returns to the state current before the
\* push, and redo right after an undo that moved returns to the state
\* current before that undo.
C8_UndoThenRedo ==
    /\ (last.op = "undo" /\ last.prev = "setState") => state = last.prevBefore
    /\ (last.op = "redo" /\ last.prev = "undo" /\ last.prevMoved) => state = last.prevBefore
C8_Witness ==
    /\ last.op = "redo"
    /\ last.prev = "undo"
    /\ last.prevMoved
    /\ state # last.before

\* C9: undo leaves the engine as it was exactly when currentIndex > 0 does
\* not hold, redo exactly when currentIndex < history.length - 1 does not
\* hold; canUndo and canRedo are those two conditions.
C9_NoOpExactlyWhenDisabled ==
    [][/\ last'.op = "undo" =>
            /\ UNCHANGED history
            /\ (currentIndex' = currentIndex) <=> ~canUndo
       /\ last'.op = "redo" =>
            /\ UNCHANGED history
            /\ (currentIndex' = currentIndex) <=> ~canRedo]_vars
C9_Witness ==
    /\ last.op = "undo"
    /\ canRedo

\* C10: a push made while a redo branch exists keeps the entries up to the
\* current one, appends the new state, makes it current and leaves nothing
\* to redo.
C10_PushDiscardsRedoBranch ==
    [][(last'.op = "setState" /\ canRedo) =>
           /\ history' = Append(SubSeq(history, 1, currentIndex + 1), last'.arg)
           /\ state' = last'.arg
           /\ ~canRedo']_vars
C10_Witness ==
    /\ last.op = "setState"
    /\ last.prev = "undo"
    /\ last.prevMoved
    /\ state = last.arg

\* C11: the history never holds more than maxHistory entries; a push made
\* on a full history drops the oldest entry, and after every setState the
\* current state is the value just pushed.
C11_HistoryBounded ==
    /\ [](Len(history) <= maxHistory)
    /\ [][last'.op = "setState" =>
            /\ state' = last'.arg
            /\ (Len(history) = maxHistory /\ ~canRedo) =>
                   history' = Append(Tail(history), last'.arg)]_vars
C11_Witness ==
    /\ last.op = "setState"
    /\ last.dropped
    /\ Len(history) = maxHistory
    /\ state = last.arg

Edits == {"add", "update", "move", "delete"}

\* C12: every add, update, move or delete call makes its new list current and
\* creates exactly one undo step: a single undo after it shows the list
\* that was current before the call.
C12_EditIsOneUndoStep ==
    last.op \in Edits =>
        /\ state = last.arg
        /\ canUndo
        /\ StateOf(history, UndoIndex(currentIndex, currentIndex), savedMarkers) = last.before

\* C13: the ids of the markers of the canonical list are pairwise different
\* in every reachable state.
C13_IdsUnique ==
    IsArray(state) =>
        \A i, j \in DOMAIN state.items :
            i # j => state.items[i].id # state.items[j].id

\* C14: update and delete called with an id that no marker of the list has
\* leave the marker list, the history, the current index, canUndo and
\* canRedo as they were.
C14_UnknownIdIsNoOp ==
    [][(last'.op \in {"update", "delete"} /\ last'.id \notin IdsOf(state)) =>
           /\ state' = state
           /\ UNCHANGED <<history, currentIndex>>
           /\ canUndo' = canUndo
           /\ canRedo' = canRedo]_vars

\* C15: an import that returns a failure leaves the marker list, the live
\* config, the persisted slots and the history (hence canUndo and canRedo)
\* as they were before the call.
C15_FailedImportChangesNothing ==
    [][(last'.op = "import" /\ last'.result # "success") =>
           /\ last'.result \in {"invalid_json", "invalid_format"}
           /\ state' = state
           /\ UNCHANGED <<history, currentIndex, mapConfig, savedMarkers, savedConfig>>]_vars
C15_Witness ==
    /\ last.op = "import"
    /\ last.result = "invalid_format"
    /\ last.arg.value.t = "number"
    /\ canUndo

\* C16: importing the text of an object that has a markers array and no
\* config field succeeds, makes the document's markers the marker list and
\* leaves the live and the persisted config unchanged.
C16_MarkersOnlyObjectImports ==
    [][(/\ last'.op = "import"
        /\ last'.arg.wellformed
        /\ last'.arg.value.t = "object"
        /\ "config" \notin DOMAIN last'.arg.value.fields
        /\ IsArray(Field(last'.arg.value, "markers"))) =>
           /\ last'.result = "success"
           /\ state' = Field(last'.arg.value, "markers")
           /\ UNCHANGED <<mapConfig, savedConfig>>]_vars

\* C17: importing the text exportMarkers has just returned succeeds, leaves
\* the marker list equal to the list before the export, and leaves a
\* cleared history: neither undo nor redo is possible.
C17_ExportImportRoundTrip ==
    [][(last'.op = "import" /\ last'.arg = exportMarkers) =>
           /\ last'.result = "success"
           /\ state' = state
           /\ ~canUndo'
           /\ ~canRedo']_vars

\* C18: a successful import of the object shape makes the document's markers
\* the marker list and merges every field of the document's config into the
\* live and the persisted config; a successful import of a bare array makes
\* it the marker list and leaves both configs unchanged.
C18_ImportFrame ==
    [][(last'.op = "import" /\ last'.result = "success") =>
           IF IsArray(last'.arg.value)
           THEN /\ state' = last'.arg.value
                /\ UNCHANGED <<mapConfig, savedConfig>>
           ELSE /\ state' = Field(last'.arg.value, "markers")
                /\ mapConfig' = Spread(mapConfig, Field(last'.arg.value, "config").fields)
                /\ savedConfig' = Spread(savedConfig, Field(last'.arg.value, "config").fields)]_vars

\* C19: an import returns success, the malformed-document failure or the
\* unrecognized-shape failure; the malformed-document failure exactly when
\* the text does not parse, and the unrecognized-shape failure for every
\* text that parses to a value that is neither an array nor an object with
\* a markers array (null, a number, ...), and for no text of an accepted shape.
C19_ImportOutcomes ==
    last.op = "import" =>
        LET doc == last.arg
            hasMarkers == doc.wellformed /\ IsArray(Field(doc.value, "markers"))
            full == hasMarkers /\ Truthy(Field(doc.value, "config"))
            array == doc.wellformed /\ IsArray(doc.value) IN
        /\ last.result \in {"success", "invalid_json", "invalid_format"}
        /\ (last.result = "invalid_json") <=> ~doc.wellformed
        /\ (doc.wellformed /\ ~array /\ ~hasMarkers) => last.result = "invalid_format"
        /\ (full \/ array) => last.result = "success"

C21_ConfigChangesOnlyByImportOrRefresh ==
    [][/\ (mapConfig' # mapConfig \/ savedConfig' # savedConfig) =>
              \/ last'.op = "import" /\ last'.result = "success"
              \/ last'.op = "complete"
       /\ last'.op \in Edits \cup {"undo", "redo", "setSearch", "toggleTypeFilter",
                                   "setAllTypeFilters"} =>
              UNCHANGED <<mapConfig, savedConfig>>]_vars
C21_Witness ==
    /\ last.op = "toggleTypeFilter"
    /\ mapConfig # MAP_CONFIG
    /\ savedConfig = mapConfig
    /\ canUndo

\* C22: whatever the marker list, the type settings and the search string,
\* the filtered result holds no marker of a disabled type and only markers
\* of the canonical list, and disabling a type takes all the markers of
\* that type, and no other marker, out of the result.
C22_TypeFilter ==
    /\ [](\A result \in {filteredMarkers} : \A i \in DOMAIN result :
             /\ filters.types[result[i].type]
             /\ \E k \in DOMAIN state.items : state.items[k] = result[i])
    /\ [][(last'.op = "toggleTypeFilter" /\ filters.types[last'.arg]) =>
             LET type == last'.arg IN
             filteredMarkers' = SelectSeq(filteredMarkers, LAMBDA m : m.type # type)]_vars
C22_Witness ==
    /\ last.op = "toggleTypeFilter"
    /\ ~filters.types[last.arg]
    /\ ~SearchTooShort(debouncedSearch)
    /\ filteredMarkers # <<>>
    /\ Len(filteredMarkers) < Len(last.before)

\* C23: when the debounced search string has fewer than 2 characters once
\* trimmed (the empty string and blanks only included), the filtered result
\* is exactly the markers of the canonical list whose type is enabled, in
\* the order of the list.
C23_ShortSearchIsTypeFilterOnly ==
    Len(Trim(debouncedSearch)) < 2 =>
        filteredMarkers = SelectSeq(state.items, LAMBDA m : filters.types[m.type])
C23_Witness ==
    /\ debouncedSearch = <<" ", "e", " ">>
    /\ ~filters.types["continent"]
    /\ filters.types["city"]
    /\ filteredMarkers = <<Ash, Yew, Elm, Oak>>

\* C24: clearHistory() leaves a history of one entry, the current state,
\* with the index at 0: the current state is what it was, and neither undo
\* nor redo is available afterwards.
C24_ClearHistoryCollapses ==
    [][last'.op = "clearHistory" =>
           /\ history' = <<state>>
           /\ currentIndex' = 0
           /\ state' = state
           /\ ~canUndo'
           /\ ~canRedo']_vars
C24_Witness ==
    /\ last.op = "clearHistory"
    /\ last.prev = "undo"
    /\ last.prevMoved
    /\ state # savedMarkers
    /\ history = <<state>>
    /\ currentIndex = 0

\* C25: the exported document has a config of exactly imageWidth,
\* imageHeight and currentLocation, with the values of the live config (no
\* publishBaseUrl), and as markers the whole current marker list, whatever
\* the type filters, the search string and the zoom level are.
C25_ExportIsFullSnapshot ==
    last.op = "export" =>
        LET doc == last.result
            config == Field(doc.value, "config") IN
        /\ doc.wellformed
        /\ DOMAIN doc.value.fields = {"config", "markers"}
        /\ DOMAIN config.fields = {"imageWidth", "imageHeight", "currentLocation"}
        /\ \A k \in DOMAIN config.fields : config.fields[k] = mapConfig[k]
        /\ "publishBaseUrl" \in DOMAIN mapConfig
        /\ Field(doc.value, "markers") = state
C25_Witness ==
    /\ last.op = "export"
    /\ ~filters.types["city"]
    /\ ~SearchTooShort(debouncedSearch)
    /\ currentZoom = -300
    /\ Len(zoomFilteredMarkers) < Len(filteredMarkers)
    /\ Len(filteredMarkers) < Len(state.items)
    /\ mapConfig # MAP_CONFIG

\* a text that is a decimal numeral from end to end: an optional sign, then
\* digits with at most one point among them
IsNumeral(s) ==
    /\ s # <<>>
    /\ LET body == IF Head(s) \in {"-", "+"} THEN Tail(s) ELSE s IN
       /\ \E i \in DOMAIN body : IsDigit(body[i])
       /\ \A i \in DOMAIN body : IsDigit(body[i]) \/ body[i] = "."
       /\ Cardinality({i \in DOMAIN body : body[i] = "."}) <= 1

\* C26: decoding the query of the page gives none when x, y or z is missing
\* or is not a number, and when x or y is outside [0, 20000] or z outside
\* [-5, 5]; otherwise it gives the numbers written there, the bounds 0,
\* 20000, -5 and 5 included, and the marker parameter as it is when there is one.
C26_DecodeValidates ==
    last.op \in {"visit", "open"} =>
        LET numeric(k) == k \in DOMAIN location /\ IsNumeral(location[k])
            val(k) == ParseFloat(location[k]).v IN
        IF \E k \in {"x", "y", "z"} : ~numeric(k) THEN shared = Null
        ELSE IF \/ val("x") < 0 \/ val("x") > 20000 * Scale
                \/ val("y") < 0 \/ val("y") > 20000 * Scale
                \/ val("z") < -5 * Scale \/ val("z") > 5 * Scale THEN shared = Null
        ELSE /\ shared # Null
             /\ shared.fields.x = val("x")
             /\ shared.fields.y = val("y")
             /\ shared.fields.zoom = val("z")
             /\ "marker" \in DOMAIN location =>
                    /\ "marker" \in DOMAIN shared.fields
                    /\ shared.fields.marker = location["marker"]

\* the page was opened at the link just made from a view inside the ranges
OpenedOwnLink ==
    /\ last.op = "open"
    /\ last.prev = "share"
    /\ last.arg.x \in 0 .. 20000 * Scale
    /\ last.arg.y \in 0 .. 20000 * Scale
    /\ last.arg.zoom \in (-5 * Scale) .. (5 * Scale)
\* the link holds x, y and z, a marker only when one was given, and nothing else
LinkHoldsTheView ==
    /\ {"x", "y", "z"} \subseteq DOMAIN location
    /\ DOMAIN location \subseteq {"x", "y", "z", "marker"}
    /\ "marker" \in DOMAIN location =>
           "marker" \in DOMAIN last.arg /\ location["marker"] = last.arg.marker
\* the decoded zoom is the zoom of the view rounded to one decimal place
ZoomToOneDecimal ==
    /\ shared.fields.zoom % (Scale \div 10) = 0
    /\ 2 * Abs(shared.fields.zoom - last.arg.zoom) <= Scale \div 10

\* C27 as stated: for x and y in [0, 20000] and zoom in [-5, 5], decoding
\* the link encoded from {x, y, zoom} gives a result, with the same x and y
\* and the zoom rounded to one decimal place; the query of the link holds
\* exactly x, y, z and, only when given, marker, nothing of the query of
\* before being left.
C27_RoundTripSameXY ==
    OpenedOwnLink =>
        /\ shared # Null
        /\ shared.fields.x = last.arg.x
        /\ shared.fields.y = last.arg.y
        /\ ZoomToOneDecimal
        /\ LinkHoldsTheView

\* C27, amended: for x and y in [0, 20000] and zoom in [-5, 5], decoding the
\* link encoded from {x, y, zoom} gives a result, with x and y rounded to
\* the nearest integer (the same x and y when they are integers) and the
\* zoom rounded to one decimal place; the query of the link holds exactly
\* x, y, z and, only when given, marker, nothing of the query of before
\* being left.
C27_RoundTripRoundedXY ==
    OpenedOwnLink =>
        /\ shared # Null
        /\ shared.fields.x % Scale = 0 /\ 2 * Abs(shared.fields.x - last.arg.x) <= Scale
        /\ shared.fields.y % Scale = 0 /\ 2 * Abs(shared.fields.y - last.arg.y) <= Scale
        /\ ZoomToOneDecimal
        /\ LinkHoldsTheView
C27_Witness ==
    /\ OpenedOwnLink
    /\ last.arg.x = 1050
    /\ shared.fields.x = 1100
    /\ last.arg.zoom = -126
    /\ shared.fields.zoom = -130
    /\ "marker" \in DOMAIN shared.fields

\* C28: for integers x in [0, W] and y in [0, H], the position read back
\* from the display coordinates of (x, y) is (x, y), the display
\* coordinates of (x, y) being (imageHeight - y, x).
C28_CoordinateRoundTrip ==
    /\ [](last.op = "place" =>
             latlng = <<MAP_CONFIG.imageHeight * Scale - point.y, point.x>>)
    /\ [][(last.op = "place" /\ last'.op = "read") => point' = point]_vars
C28_Witness ==
    /\ last.op = "read"
    /\ last.prev = "place"
    /\ point = [x |-> 12300, y |-> 100]
    /\ latlng = <<29900, 12300>>

\* the minimum zoom of each type, as the zoom stage is described
MinZoomOf(type) ==
    IF type = "continent" THEN -300
    ELSE IF type = "region" THEN -150
    ELSE IF type = "city" THEN -50
    ELSE 50

\* C29: the zoom stage shows a marker of the filtered set exactly when the
\* current zoom is at least the minimum zoom of its type (continent -3,
\* region -1.5, city -0.5, town and location 0.5): continents are shown at
\* every zoom from -3 to 2, and a zoom change upwards hides no marker that
\* was shown before it.
C29_ZoomVisibility ==
    /\ [](\A all \in {filteredMarkers}, shown \in {zoomFilteredMarkers} :
             /\ shown = SelectSeq(all, LAMBDA m : currentZoom >= MinZoomOf(m.type))
             /\ currentZoom \in -300 .. 200 =>
                    \A i \in DOMAIN all :
                        all[i].type = "continent" => \E k \in DOMAIN shown : shown[k] = all[i])
    /\ [][(last'.op = "zoom" /\ currentZoom' >= currentZoom) =>
              \A before \in {zoomFilteredMarkers}, after \in {zoomFilteredMarkers'} :
                  \A i \in DOMAIN before : \E k \in DOMAIN after : after[k] = before[i]]_vars
C29_Witness ==
    /\ last.op = "zoom"
    /\ currentZoom = -150
    /\ Len(last.before) < Len(zoomFilteredMarkers)
    /\ Len(zoomFilteredMarkers) < Len(filteredMarkers)
    /\ \E k \in DOMAIN zoomFilteredMarkers : zoomFilteredMarkers[k].type = "region"

\* C30: in every reachable state, those reached when a refresh completes
\* after add, update, delete, undo or redo calls made while it was in flight
\* included, the history is not empty and 0 <= currentIndex <= length - 1,
\* so that the current marker list is history[currentIndex] and never the
\* initialState fallback.
C30_IndexInsideHistory ==
    /\ Len(history) > 0
    /\ 0 <= currentIndex
    /\ currentIndex <= Len(history) - 1
    /\ state = history[currentIndex + 1]

\* C31: two mutations issued one after the other, also from the same
\* render, are applied in call order: the second works on the result of the
\* first, the current list carries both edits, and the history ends with
\* the two new lists.
C31_MutationsApplyInOrder ==
    [][last'.op = "two" =>
          LET afterFirst == EditResult(state, last'.arg[1])
              afterBoth == EditResult(afterFirst, last'.arg[2]) IN
          /\ state' = afterBoth
          /\ Len(history') >= 2
          /\ history'[Len(history')] = afterBoth
          /\ history'[Len(history') - 1] = afterFirst]_vars

\* C32: the loading flag is true in every state in which a refresh fetch is
\* outstanding, also when refreshes overlap and one of them completes
\* before the others.
C32_LoadingWhileFetching ==
    inflight # <<>> => isLoading

\* the markers of a list other than the one with this id, in list order
Others(list, id) == SelectSeq(list.items, LAMBDA m : m.id # id)

\* C33: update, move and delete touch only the marker whose id matches:
\* update changes only the given fields of that marker and keeps its id and
\* its place in the list, move changes only its x and y, delete removes
\* only it; every other marker and the order of the remaining markers are
\* unchanged.
C33_EditsTouchOnlyTheirMarker ==
    last.op \in {"update", "move", "delete"} =>
        LET old == last.before
            new == last.arg
            changed == IF last.op = "move" THEN {"x", "y"} ELSE {"name"} IN
        /\ Others(new, last.id) = Others(old, last.id)
        /\ last.op = "delete" =>
               /\ new.items = Others(old, last.id)
               /\ Len(new.items) >= Len(old.items) - 1
        /\ last.op # "delete" =>
               /\ Len(new.items) = Len(old.items)
               /\ Cardinality({k \in DOMAIN old.items : new.items[k] # old.items[k]}) <= 1
               /\ \A k \in DOMAIN old.items :
                      /\ new.items[k].id = old.items[k].id
                      /\ DOMAIN new.items[k] = DOMAIN old.items[k] \cup
                             (IF old.items[k].id = last.id THEN changed ELSE {})
                      /\ \A f \in DOMAIN old.items[k] \ changed :
                             new.items[k][f] = old.items[k][f]
\* C34: add(marker) puts exactly one marker, with the given name, type, x,
\* y and optional fields, at the end of the marker list and leaves every
\* marker already there, and their order, unchanged; the list is one longer.
C34_AddAppendsOne ==
    [][last'.op = "add" =>
          /\ IsArray(state')
          /\ Len(state'.items) = Len(state.items) + 1
          /\ SubSeq(state'.items, 1, Len(state.items)) = state.items
          /\ \E m \in NewMarkers :
                 LET added == state'.items[Len(state'.items)] IN
                 /\ DOMAIN added = DOMAIN m \cup {"id"}
                 /\ \A f \in DOMAIN m : added[f] = m[f]]_vars

C36_TransformUsesLiveHeight ==
    /\ last.op = "place" => latlng = <<imageBounds[2][1] - point.y, point.x>>
    /\ last.op = "click" =>
          point = [x |-> MathRound(latlng[2]), y |-> MathRound(imageBounds[2][1] - latlng[1])]

\* C37: whatever the publisher answers, the marker list a completed refresh
\* installs (the persisted list and the snapshot it pushes on the history)
\* is a marker array: the markers of the payload or the static default list.
C37_RefreshInstallsMarkerArray ==
    last.op = "complete" =>
        /\ savedMarkers \in {RemoteMarkers, DEFAULT_MARKERS}
        /\ IsArray(savedMarkers)
        /\ IsArray(history[Len(history)])

====
